---- MODULE Spec2Model ----
(***************************************************************************)
(* Model of the Mafia game engine of mafia_bot: GameManager, PhaseManager, *)
(* Player and the role classes that RoleManager can assign.                *)
(*                                                                         *)
(* Every handler of the Python code is an operator from a session record   *)
(* to a session record (with a return value where the code returns one);   *)
(* the actions apply these operators to the variables.  The callbacks that *)
(* GameManager registers are part of the handler that triggers them.       *)
(*                                                                         *)
(* Threading: in SpecRace and SpecThreads the steps are finer than a       *)
(* handler; in every other specification the handlers are atomic steps and *)
(* a threading.Timer fires and runs its function in one step.  In          *)
(* SpecRace a Timer takes two steps: its wait elapses (after which         *)
(* Timer.cancel() no longer has an effect), then its function runs, and    *)
(* other threads may act in between.  In SpecThreads                       *)
(* vote and perform_night_action take two steps, their checks and their    *)
(* writes, and the Timer thread may run in between.  SpecPlayer drives the *)
(* Player objects of a registry directly.  SpecRoles and SpecPsycho give   *)
(* Citizens further roles with Player.assign_role.  SpecRestart starts a   *)
(* second game on the same GameManager.  SpecExtended, SpecHooks and       *)
(* SpecCult give Citizens roles of the additional role modules and call    *)
(* code the engine never calls: process_night_actions of                   *)
(* phase_manager_updated.py, BusDriver.on_night_end, Cultist.on_day_start. *)
(* SpecArchitect does the same for the Architect's prediction.  SpecNights *)
(* reaches further nights by forced phase changes.  SpecBonds starts from  *)
(* a registry with any lover graph.  SpecPhases is the PhaseManager of     *)
(* phase_manager_updated.py on its own, its Timer thread taking a step     *)
(* between its test of current_phase and its _change_phase call.  SpecGame *)
(* has players trying to join and to leave while a game runs.  SpecVotes   *)
(* follows Player.vote_count, which nothing in the engine reads and which  *)
(* the votes of the other specifications leave at 0.                       *)
(*                                                                         *)
(* Not modelled: display names, chat ids, last wills, Player.silenced      *)
(* (written, never read by the engine), is_psycho (never read by the       *)
(* engine).                                                                *)
(***************************************************************************)
EXTENDS Integers, Sequences, FiniteSets, TLC

VARIABLES
    settings,        \* settings["role_counts"], a sequence of <<role, count>>
    players,         \* GameManager.players: user_id -> Player
    game_started,    \* GameManager.game_started
    vote_results,    \* GameManager.vote_results: target id -> votes
    current_phase,   \* PhaseManager.current_phase
    day_count,       \* PhaseManager.day_count
    phase_timers,    \* PhaseManager.phase_timers: kinds with a waiting Timer
    firing,          \* Timers whose wait has elapsed, function not yet run
    night_actions,   \* PhaseManager.night_actions: action kind -> data
    phase_log,       \* on_phase_change notifications of the last handler
    end_log,         \* on_game_end calls of the last handler
    win_log,         \* decisions of _check_win_condition in the last handler
    last_resolved,   \* night actions consumed by the last handler
    depth_exceeded,  \* the end-game recursion ran deeper than MaxCallDepth
    submissions,     \* votes and night actions that changed the session
    messages,        \* the list returned by the last direct Player.kill call
    nights,          \* night Timers that have run their function
    pending,         \* the call of the bot thread that is past its checks
    callback_saw     \* what each on_phase_change of the last handler found

vars == <<settings, players, game_started, vote_results, current_phase,
          day_count, phase_timers, firing, night_actions, phase_log,
          end_log, win_log, last_resolved, depth_exceeded,
          submissions, messages, nights, pending, callback_saw>>

----------------------------------------------------------------------------
(* Bounds of the model *)

\* night Timers that are followed in a session
MaxNights == 1
\* at most this many timers may be past their wait with the function not run
MaxFiring == 1
\* nesting depth at which the _end_game/end_game recursion is cut off
MaxCallDepth == 4
\* votes and night actions that change the session
MaxSubmissions == 4
\* number of add_lover links made on the players of a registry
MaxLinks == 2
\* players whose role is assigned by a direct Player.assign_role call
MaxDirectRoles == 1
\* players of a registry whose lover bonds are set up freely
MaxBonded == 3

(* Program constants *)

\* start_game needs at least this many players
MIN_PLAYERS == 4
\* Agitator.extra_votes
EXTRA_VOTES == 2
\* Doctor.self_heal_count after construction
SELF_HEAL_COUNT == 1

\* The user ids that enrol.  Sessions have exactly the minimum player count.
UserIds == 1..MIN_PLAYERS

NoId == 0       \* Python None where a player id is expected
NoRole == "None"
NoTeam == "None"

MAFIA_TEAM == "MafiaTeam"
CITIZEN_TEAM == "CitizenTeam"
NEUTRAL_TEAM == "NeutralTeam"

----------------------------------------------------------------------------
(* Roles: name, team and night_action flag of the role classes *)

Team(role) ==
    CASE role \in {"Mafia", "MafiaWithSubRole"} -> MAFIA_TEAM
      [] role \in {"Cultist", "Cupid", "SerialKiller", "Thief", "Architect"} ->
           NEUTRAL_TEAM
      [] role = NoRole -> NoTeam
      [] OTHER -> CITIZEN_TEAM

HasNightAction(role) ==
    role \in {"Mafia", "Detective", "Doctor", "Reporter", "SerialKiller",
              "Cultist", "Cupid", "Thief", "Psycho", "Witch", "BusDriver",
              "Architect", "MafiaWithSubRole"}

\* Player.__init__ : a fresh player without a role
NewPlayer ==
    [alive |-> TRUE, role |-> NoRole, voted_for |-> NoId, protected |-> FALSE,
     lovers |-> {}, self_heal_count |-> 0, role_lovers |-> {},
     used_ability |-> FALSE, cultists |-> {}, fake_role |-> NoRole,
     predicted_roles |-> <<>>, vote_count |-> 0]

\* Player.assign_role with a freshly constructed role object role_class(id)
AssignRole(p, id, role) ==
    [p EXCEPT !.role = role,
              !.self_heal_count = IF role = "Doctor" THEN SELF_HEAL_COUNT ELSE 0,
              !.role_lovers = {},
              !.used_ability = FALSE,
              !.cultists = IF role = "Cultist" THEN {id} ELSE {},
              !.fake_role = NoRole,
              !.predicted_roles = <<>>]

\* the roles Psycho.__init__ draws its fake_role from, and the lists its
\* get_night_action_result draws from
FAKE_ROLES == <<"Detective", "Doctor", "Reporter">>
PSYCHO_TEAMS == <<MAFIA_TEAM, CITIZEN_TEAM, NEUTRAL_TEAM>>
PSYCHO_ROLES == <<"Mafia", "Citizen", "Detective", "Doctor", "Agitator",
                  "SerialKiller", "Cultist">>

\* random.choice(options), draw being the number the generator produced
Draws == 1..Len(PSYCHO_ROLES)
Choice(options, draw) == options[((draw - 1) % Len(options)) + 1]
\* only the Psycho variant draws
DrawsOf(role) == IF role = "Psycho" THEN Draws ELSE {1}

\* Player.assign_role with a freshly constructed Psycho(id)
AssignPsycho(p, id, draw) ==
    [AssignRole(p, id, "Psycho") EXCEPT !.fake_role = Choice(FAKE_ROLES, draw)]

----------------------------------------------------------------------------
(* Small helpers *)

Max(S) == CHOOSE x \in S : \A y \in S : y <= x
Min(S) == CHOOSE x \in S : \A y \in S : x <= y

RECURSIVE SumCounts(_)
SumCounts(rc) == IF rc = <<>> THEN 0 ELSE Head(rc)[2] + SumCounts(Tail(rc))

HasKey(rc, role) == \E i \in 1..Len(rc) : rc[i][1] = role
GetCount(rc, role) ==
    IF HasKey(rc, role)
    THEN rc[CHOOSE i \in 1..Len(rc) : rc[i][1] = role][2]
    ELSE 0
\* dict assignment: an existing key keeps its position, a new key goes last
SetCount(rc, role, n) ==
    IF HasKey(rc, role)
    THEN [i \in 1..Len(rc) |-> IF rc[i][1] = role THEN <<role, n>> ELSE rc[i]]
    ELSE Append(rc, <<role, n>>)

----------------------------------------------------------------------------
(* RoleManager *)

\* priority_order of _adjust_roles (roles that RoleManager knows)
PRIORITY_ORDER ==
    <<"Citizen", "Mafia", "Detective", "Doctor", "Reporter", "Agitator",
      "SerialKiller", "Cultist", "Cupid", "Thief">>

\* the removal loop of _adjust_roles: walk the priority order backwards and
\* take roles away while the total exceeds the player count
RECURSIVE TrimRoles(_, _, _)
TrimRoles(rc, i, excess) ==
    IF i = 0 \/ excess <= 0 THEN rc
    ELSE LET role == PRIORITY_ORDER[i]
             have == GetCount(rc, role)
             take == IF have > 0 THEN Min({have, excess}) ELSE 0
         IN  TrimRoles(IF take > 0 THEN SetCount(rc, role, have - take) ELSE rc,
                       i - 1, excess - take)

MinMafia(player_count) == Max({1, player_count \div 5})
MaxMafia(player_count) == Max({1, player_count \div 3})

\* RoleManager._adjust_roles (every role enabled)
AdjustRoles(rc, player_count) ==
    LET total == SumCounts(rc)
        trimmed == IF total > player_count
                   THEN TrimRoles(rc, Len(PRIORITY_ORDER), total - player_count)
                   ELSE rc
    IN  IF GetCount(trimmed, "Mafia") < MinMafia(player_count)
        THEN SetCount(trimmed, "Mafia", MinMafia(player_count))
        ELSE IF GetCount(trimmed, "Mafia") > MaxMafia(player_count)
        THEN SetCount(trimmed, "Mafia", MaxMafia(player_count))
        ELSE trimmed

\* the roles handed out by the loop of assign_roles, in hand-out order
RECURSIVE HandOut(_, _)
HandOut(rc, left) ==
    IF rc = <<>> \/ left = 0 THEN <<>>
    ELSE LET role == Head(rc)[1]
             n == IF Head(rc)[2] <= 0 THEN 0 ELSE Min({Head(rc)[2], left})
         IN  [i \in 1..n |-> role] \o HandOut(Tail(rc), left - n)

\* RoleManager.assign_roles: shuffled is player_ids after random.shuffle;
\* players left over when the counts are used up become Citizens
AssignRoles(rc, shuffled) ==
    LET n == Len(shuffled)
        handed == HandOut(AdjustRoles(rc, n), n)
    IN  [id \in {shuffled[i] : i \in 1..n} |->
            LET i == CHOOSE j \in 1..n : shuffled[j] = id
            IN  IF i <= Len(handed) THEN handed[i] ELSE "Citizen"]

\* ids in ascending order
RECURSIVE Ascending(_)
Ascending(ids) ==
    IF ids = {} THEN <<>> ELSE <<Min(ids)>> \o Ascending(ids \ {Min(ids)})

Reverse(seq) == [i \in 1..Len(seq) |-> seq[Len(seq) + 1 - i]]

\* Orders random.shuffle can leave player_ids in.  It can produce every
\* order; the model draws the ascending and the descending one, which
\* between them put every two roles in both orders of the registry.
Shuffles(ids) == {Ascending(ids), Reverse(Ascending(ids))}

----------------------------------------------------------------------------
(* Player *)

\* <Role>.on_death: the messages it returns. BaseRole's has no effect and no
\* messages; Bomber's, given a killer, notes the explosion (bomber and killer)
\* in the player_data it was handed and announces it
OnDeath(role, ps, id, killer_id) ==
    IF role = "Bomber" /\ killer_id # NoId
    THEN << <<"bomber_explosion", id, killer_id>> >>
    ELSE <<>>

\* Player.kill on the registry ps; returns the registry and the messages
RECURSIVE Kill(_, _, _)
RECURSIVE KillLovers(_, _, _)
KillLovers(ps, rest, msgs) ==
    IF rest = {} THEN [players |-> ps, messages |-> msgs]
    ELSE LET l == Min(rest)
         IN  IF l \in DOMAIN ps /\ ps[l].alive
             THEN LET r == Kill(ps, l, NoId)
                  IN  KillLovers(r.players, rest \ {l},
                                 msgs \o << <<"followed_lover", l>> >> \o r.messages)
             ELSE KillLovers(ps, rest \ {l}, msgs)

Kill(ps, id, killer_id) ==
    IF ~ps[id].alive THEN [players |-> ps, messages |-> <<>>]
    ELSE IF ps[id].protected
    THEN [players |-> ps, messages |-> << <<"protected">> >>]
    ELSE LET dead == [ps EXCEPT ![id].alive = FALSE]
         IN  KillLovers(dead, ps[id].lovers, OnDeath(ps[id].role, dead, id, killer_id))

\* Player.add_lover
AddLover(ps, id, lover_id) == [ps EXCEPT ![id].lovers = @ \cup {lover_id}]
\* Player.protect
Protect(ps, id) == [ps EXCEPT ![id].protected = TRUE]
\* Player.reset_status
ResetStatus(ps, id) == [ps EXCEPT ![id].protected = FALSE]
\* Player.reset_vote
ResetVote(ps, id) == [ps EXCEPT ![id].voted_for = NoId, ![id].vote_count = 0]

\* on_voted of the role that receives the vote
OnVoted(role) == IF role = "Agitator" THEN 1 + EXTRA_VOTES ELSE 1

\* Player.add_vote, called on the target: the weight the vote adds
AddVote(ps, target_id, voter_id) ==
    IF ps[target_id].role # NoRole THEN OnVoted(ps[target_id].role) ELSE 1

----------------------------------------------------------------------------
(* Role classes: night actions and win predicates *)

\* (variant: a role never finds an action of its kind registered)
HasNever(na, kind) == FALSE

\* key in night_actions
Has(na, kind) == kind \in DOMAIN na

Put(na, kind, data) == (kind :> data) @@ na
NoActions == <<>>

AliveIds(ps) == {id \in DOMAIN ps : ps[id].alive}

\* <Role>.perform_night_action for the role of player id; returns the
\* registry (role sub-state lives in the player record) and the action set
RolePerform(ps, na, id, target_id) ==
    LET role == ps[id].role
        same == [players |-> ps, night_actions |-> na]
    IN
    CASE role \in {"Mafia", "MafiaWithSubRole"} ->
           \* (a MafiaWithSubRole keeps its initial action_type "kill")
           IF Has(na, "mafia_kill") THEN same
           ELSE [players |-> ps,
                 night_actions |->
                    Put(na, "mafia_kill", [target_id |-> target_id, killer_id |-> id])]
      [] role = "SerialKiller" ->
           IF Has(na, "serial_killer_kill") THEN same
           ELSE [players |-> ps,
                 night_actions |->
                    Put(na, "serial_killer_kill",
                        [target_id |-> target_id, killer_id |-> id])]
      [] role = "Doctor" ->
           IF Has(na, "doctor_heal") THEN same
           ELSE [players |->
                    IF target_id = id
                    THEN [ps EXCEPT ![id].self_heal_count = @ - 1] ELSE ps,
                 night_actions |->
                    Put(na, "doctor_heal", [doctor_id |-> id, target_id |-> target_id])]
      [] role = "Detective" ->
           IF Has(na, "detective_investigate") THEN same
           ELSE [players |-> ps,
                 night_actions |->
                    Put(na, "detective_investigate",
                        [detective_id |-> id, target_id |-> target_id,
                         target_role |-> ps[target_id].role,
                         target_team |-> Team(ps[target_id].role)])]
      [] role = "Cultist" ->
           IF Has(na, "cultist_convert") THEN same
           ELSE [players |-> ps,
                 night_actions |->
                    Put(na, "cultist_convert",
                        [cultist_id |-> id, target_id |-> target_id,
                         success |-> Team(ps[target_id].role) # MAFIA_TEAM])]
      [] role = "Psycho" ->
           IF Has(na, "psycho_action") THEN same
           ELSE [players |-> ps,
                 night_actions |->
                    Put(na, "psycho_action",
                        [psycho_id |-> id, target_id |-> target_id,
                         fake_role |-> ps[id].fake_role])]
      [] role = "Witch" ->
           IF Has(na, "witch_curse") THEN same
           ELSE [players |-> ps,
                 night_actions |->
                    Put(na, "witch_curse", [witch_id |-> id, target_id |-> target_id])]
      [] role = "BusDriver" ->
           IF ~Has(na, "bus_driver_swap")
           THEN [players |-> ps,
                 night_actions |->
                    Put(na, "bus_driver_swap",
                        [driver_id |-> id, target1_id |-> target_id,
                         target2_id |-> NoId])]
           ELSE IF na["bus_driver_swap"].driver_id = id
           THEN [players |-> ps,
                 night_actions |->
                    [na EXCEPT !["bus_driver_swap"].target2_id = target_id]]
           ELSE same
      [] role = "Architect" ->
           IF Has(na, "architect_predict") THEN same
           ELSE [players |-> ps,
                 night_actions |->
                    Put(na, "architect_predict",
                        [architect_id |-> id, target_id |-> target_id,
                         predicted_role |-> NoRole])]
      [] role = "Cupid" ->
           LET na1 == IF Has(na, "cupid_match") THEN na
                      ELSE Put(na, "cupid_match", [cupid_id |-> id, lovers |-> <<>>])
               room == Len(na1["cupid_match"].lovers) < 2
               na2 == IF room
                      THEN [na1 EXCEPT !["cupid_match"].lovers = Append(@, target_id)]
                      ELSE na1
               ps1 == IF room THEN [ps EXCEPT ![id].role_lovers = @ \cup {target_id}]
                      ELSE ps
           IN  [players |->
                    IF Len(na2["cupid_match"].lovers) >= 2
                    THEN [ps1 EXCEPT ![id].used_ability = TRUE] ELSE ps1,
                night_actions |-> na2]
      [] OTHER -> same

\* <Role>.get_night_action_result for the role of player id; returns the
\* text (as a tuple) and the registry, which the Cultist variant changes;
\* draw is what random.choice produces in the Psycho variant
RoleResult(ps, na, id, draw) ==
    LET role == ps[id].role
        txt(m) == [text |-> m, players |-> ps]
    IN
    CASE role = "Mafia" ->
           IF Has(na, "mafia_kill") /\ na["mafia_kill"].target_id \in DOMAIN ps
           THEN txt(<<"attacked", na["mafia_kill"].target_id>>)
           ELSE txt(<<"attack_failed">>)
      [] role = "SerialKiller" ->
           IF Has(na, "serial_killer_kill")
              /\ na["serial_killer_kill"].target_id \in DOMAIN ps
           THEN txt(<<"attacked", na["serial_killer_kill"].target_id>>)
           ELSE txt(<<"attack_failed">>)
      [] role = "Doctor" ->
           IF Has(na, "doctor_heal") /\ na["doctor_heal"].doctor_id = id
              /\ na["doctor_heal"].target_id \in DOMAIN ps
           THEN IF na["doctor_heal"].target_id = id
                THEN txt(<<"healed_self", ps[id].self_heal_count>>)
                ELSE txt(<<"healed", na["doctor_heal"].target_id>>)
           ELSE txt(<<"heal_failed">>)
      [] role = "Detective" ->
           IF Has(na, "detective_investigate")
              /\ na["detective_investigate"].detective_id = id
              /\ na["detective_investigate"].target_id \in DOMAIN ps
              /\ na["detective_investigate"].target_team # NoTeam
           THEN txt(<<"investigated", na["detective_investigate"].target_id,
                      na["detective_investigate"].target_team>>)
           ELSE txt(<<"investigate_failed">>)
      [] role = "Cultist" ->
           IF Has(na, "cultist_convert") /\ na["cultist_convert"].cultist_id = id
              /\ na["cultist_convert"].target_id \in DOMAIN ps
           THEN LET target_id == na["cultist_convert"].target_id
                IN  IF na["cultist_convert"].success
                    THEN LET members == ps[id].cultists \cup {target_id}
                         IN  [text |-> <<"converted", target_id, Cardinality(members)>>,
                              players |-> [ps EXCEPT ![id].cultists = members]]
                    ELSE txt(<<"convert_failed", target_id>>)
           ELSE txt(<<"convert_no_result">>)
      [] role = "Psycho" ->
           IF Has(na, "psycho_action") /\ na["psycho_action"].psycho_id = id
              /\ na["psycho_action"].target_id \in DOMAIN ps
           THEN LET target_id == na["psycho_action"].target_id
                    fake_role == na["psycho_action"].fake_role
                IN  CASE fake_role = "Detective" ->
                           txt(<<"investigated", target_id,
                                 Choice(PSYCHO_TEAMS, draw)>>)
                      [] fake_role = "Doctor" -> txt(<<"healed", target_id>>)
                      [] fake_role = "Reporter" ->
                           txt(<<"reported", target_id,
                                 Choice(PSYCHO_ROLES, draw)>>)
                      [] OTHER -> txt(<<"action_failed">>)
           ELSE txt(<<"action_failed">>)
      [] role = "Witch" ->
           IF Has(na, "witch_curse") /\ na["witch_curse"].witch_id = id
              /\ na["witch_curse"].target_id \in DOMAIN ps
           THEN txt(<<"cursed", na["witch_curse"].target_id>>)
           ELSE txt(<<"curse_failed">>)
      [] role = "Cupid" ->
           IF Has(na, "cupid_match") /\ na["cupid_match"].cupid_id = id
              /\ Len(na["cupid_match"].lovers) \in {1, 2}
           THEN IF Len(na["cupid_match"].lovers) = 2
                THEN txt(<<"matched", na["cupid_match"].lovers[1],
                           na["cupid_match"].lovers[2]>>)
                ELSE txt(<<"first_lover", na["cupid_match"].lovers[1]>>)
           ELSE txt(<<"match_failed">>)
      [] OTHER -> txt(<<"nothing_happened">>)

\* <Role>.get_night_action_targets for the role of player id
RoleTargets(ps, id) ==
    LET role == ps[id].role
        alive == AliveIds(ps)
    IN
    CASE role = "Mafia" ->
           {t \in alive : /\ ps[t].role # NoRole
                          /\ Team(ps[t].role) # MAFIA_TEAM
                          /\ t # id}
      [] role = "MafiaWithSubRole" ->
           {t \in alive : /\ t # id
                          /\ ~(ps[t].role # NoRole /\ Team(ps[t].role) = MAFIA_TEAM)}
      [] role \in {"Detective", "SerialKiller", "Psycho", "Witch", "Reporter",
                   "BusDriver", "Architect"} -> alive \ {id}
      [] role = "Thief" ->
           IF ps[id].used_ability THEN {} ELSE alive \ {id}
      [] role = "Doctor" ->
           IF ps[id].self_heal_count <= 0 THEN alive \ {id} ELSE alive
      [] role = "Cultist" -> alive \ ps[id].cultists
      [] role = "Cupid" ->
           IF ps[id].used_ability \/ Cardinality(ps[id].role_lovers) >= 2
           THEN {} ELSE alive
      [] OTHER -> {}

\* <Role>.check_win_condition for the Neutral roles (default: False)
RoleCheckWin(ps, id) ==
    LET role == ps[id].role
        alive == AliveIds(ps)
    IN
    CASE role = "SerialKiller" -> alive = {id}
      [] role = "Cultist" ->
           LET n == Cardinality(alive \cap ps[id].cultists)
           IN  2 * n >= Cardinality(alive) /\ n > 0
      [] role = "Cupid" ->
           /\ Cardinality(ps[id].role_lovers) >= 2
           /\ Cardinality(alive) = 2
           /\ Cardinality(alive \cap ps[id].role_lovers) = 2
      [] role = "Architect" ->
           \* the dicts of Player.to_dict carry no "player_id" key
           LET player_id_of(t) == NoId
           IN  \E t \in DOMAIN ps : player_id_of(t) = id /\ ps[t].alive
      [] OTHER -> FALSE

\* BusDriver.on_night_end on the action set; id_keys are the keys of the
\* action records that end in "_id", other than driver_id
OnNightEnd(na) ==
    IF Has(na, "bus_driver_swap") /\ na["bus_driver_swap"].target2_id # NoId
    THEN LET id_keys == {"target_id", "killer_id", "doctor_id", "detective_id",
                         "cultist_id", "psycho_id", "witch_id", "cupid_id",
                         "architect_id"}
             target1_id == na["bus_driver_swap"].target1_id
             target2_id == na["bus_driver_swap"].target2_id
             swapped(action_data) ==
                 [key \in DOMAIN action_data |->
                     IF key \in id_keys /\ action_data[key] = target1_id
                     THEN target2_id
                     ELSE IF key \in id_keys /\ action_data[key] = target2_id
                     THEN target1_id
                     ELSE action_data[key]]
         IN  [action_key \in DOMAIN na |->
                 IF action_key = "bus_driver_swap" THEN na[action_key]
                 ELSE swapped(na[action_key])]
    ELSE na

----------------------------------------------------------------------------
(* The session: the fields of GameManager and of its PhaseManager *)

Session ==
    [settings |-> settings, players |-> players, game_started |-> game_started,
     vote_results |-> vote_results, current_phase |-> current_phase,
     day_count |-> day_count, phase_timers |-> phase_timers, firing |-> firing,
     night_actions |-> night_actions, phase_log |-> phase_log,
     end_log |-> end_log, win_log |-> win_log, last_resolved |-> last_resolved,
     depth_exceeded |-> depth_exceeded,
     submissions |-> submissions, messages |-> messages, nights |-> nights,
     pending |-> pending, callback_saw |-> callback_saw]

\* the variables take the values of the session record s
Becomes(s) ==
    /\ settings' = s.settings
    /\ players' = s.players
    /\ game_started' = s.game_started
    /\ vote_results' = s.vote_results
    /\ current_phase' = s.current_phase
    /\ day_count' = s.day_count
    /\ phase_timers' = s.phase_timers
    /\ firing' = s.firing
    /\ night_actions' = s.night_actions
    /\ phase_log' = s.phase_log
    /\ end_log' = s.end_log
    /\ win_log' = s.win_log
    /\ last_resolved' = s.last_resolved
    /\ depth_exceeded' = s.depth_exceeded
    /\ submissions' = s.submissions
    /\ messages' = s.messages
    /\ nights' = s.nights
    /\ pending' = s.pending
    /\ callback_saw' = s.callback_saw

\* a handler starts: the logs describe the handler that ran last
Fresh(s) ==
    [s EXCEPT !.phase_log = <<>>, !.end_log = <<>>, !.win_log = <<>>,
              !.last_resolved = NoActions, !.messages = <<>>,
              !.callback_saw = <<>>]

NoVotes == <<>>
NoCall == <<>>

----------------------------------------------------------------------------
(* PhaseManager *)

\* PhaseManager._cancel_timers: cancels the Timers that are still waiting
CancelTimers(s) == [s EXCEPT !.phase_timers = {}]

\* PhaseManager._set_day_timer / _set_night_timer (durations are positive)
SetTimer(s, kind) == [s EXCEPT !.phase_timers = @ \cup {kind}]

\* PhaseManager.clear_night_actions
ClearNightActions(s) == [s EXCEPT !.night_actions = NoActions]

\* (variant: the callback is invoked on every end_game call)
EndGameAlwaysNotifies(old_phase) == TRUE

\* the guard of PhaseManager.end_game on the notification
EndGameNotifies(old_phase) == old_phase # "end"

----------------------------------------------------------------------------
(* GameManager: night resolution, day votes, win evaluation *)

\* kill_data.get("blocked", False): only Doctor.on_day_start sets the key,
\* and the engine never calls on_day_start
Blocked(kill_data) == FALSE

\* _process_night_actions, "doctor_heal" block
ApplyHeal(ps, na) ==
    IF Has(na, "doctor_heal") /\ na["doctor_heal"].target_id \in DOMAIN ps
    THEN Protect(ps, na["doctor_heal"].target_id)
    ELSE ps

\* _process_night_actions, "mafia_kill" and "serial_killer_kill" blocks
ApplyKill(ps, na, kind) ==
    IF Has(na, kind)
    THEN LET target_id == na[kind].target_id
             killer_id == na[kind].killer_id
         IN  IF /\ (kind = "mafia_kill" => ~Blocked(na[kind]))
                /\ target_id \in DOMAIN ps
                /\ ~ps[target_id].protected
             THEN Kill(ps, target_id, killer_id).players
             ELSE ps
    ELSE ps

\* (variant: the Mafia kill is applied before the heal)
ResolveNightKillFirst(ps, na) ==
    LET reset == [id \in DOMAIN ps |-> [ps[id] EXCEPT !.protected = FALSE]]
        mafia == ApplyKill(reset, na, "mafia_kill")
        healed == ApplyHeal(mafia, na)
    IN  ApplyKill(healed, na, "serial_killer_kill")

\* the effect of _process_night_actions on the registry
ResolveNight(ps, na) ==
    LET reset == [id \in DOMAIN ps |-> [ps[id] EXCEPT !.protected = FALSE]]
        healed == ApplyHeal(reset, na)
        mafia == ApplyKill(healed, na, "mafia_kill")
    IN  ApplyKill(mafia, na, "serial_killer_kill")

\* process_night_actions of the PhaseManager of phase_manager_updated.py, on
\* the alive flags of the players it is given: the Mafia kill, the
\* SerialKiller kill, then the Architect's result (the curse list and the
\* messages are left out)
ProcessNightActionsUpdated(ps, na) ==
    LET kill(before, kind) ==
            IF Has(na, kind)
            THEN LET killer_id == na[kind].killer_id
                     target_id == na[kind].target_id
                     protected == /\ Has(na, "doctor_heal")
                                  /\ na["doctor_heal"].target_id = target_id
                 IN  IF /\ killer_id # NoId /\ target_id # NoId
                        /\ target_id \in DOMAIN before
                        /\ ~protected
                        /\ before[target_id].alive
                     THEN LET dead == [before EXCEPT ![target_id].alive = FALSE]
                          IN  IF /\ before[target_id].role = "Bomber"
                                 /\ killer_id \in DOMAIN before
                              THEN [dead EXCEPT ![killer_id].alive = FALSE]
                              ELSE dead
                     ELSE before
            ELSE before
        mafia == kill(ps, "mafia_kill")
        serial == kill(mafia, "serial_killer_kill")
    IN  IF Has(na, "architect_result")
           /\ na["architect_result"].architect_id \in DOMAIN serial
        THEN LET result == na["architect_result"]
             IN  IF result.success /\ result.target_id \in DOMAIN serial
                 THEN [serial EXCEPT ![result.target_id].alive = FALSE]
                 ELSE [serial EXCEPT ![result.architect_id].alive = FALSE]
        ELSE serial

\* GameManager._process_night_actions
ProcessNightActions(s) ==
    ClearNightActions([s EXCEPT !.players = ResolveNight(s.players, s.night_actions),
                                !.last_resolved = s.night_actions])

\* the most-voted players found by the loop of _process_day_votes
MaxVotes(vr) == Max({0} \cup {vr[id] : id \in DOMAIN vr})
MaxVotedPlayers(vr) == {id \in DOMAIN vr : vr[id] = MaxVotes(vr)}

\* the player _process_day_votes calls kill on, NoId when there is none
ExecutedId(vr) ==
    IF Cardinality(MaxVotedPlayers(vr)) = 1 /\ MaxVotes(vr) > 0
    THEN CHOOSE id \in MaxVotedPlayers(vr) : TRUE
    ELSE NoId

\* GameManager._process_day_votes
ProcessDayVotes(s) ==
    IF DOMAIN s.vote_results = {} THEN s
    ELSE LET executed_id == ExecutedId(s.vote_results)
         IN  [s EXCEPT !.players =
                          IF executed_id # NoId /\ executed_id \in DOMAIN s.players
                          THEN Kill(s.players, executed_id, NoId).players
                          ELSE s.players,
                       !.vote_results = NoVotes]

AliveTeam(ps, team) == {id \in AliveIds(ps) : Team(ps[id].role) = team}

\* the first alive Neutral player, in registry order, whose role reports a win
NeutralWinner(ps) ==
    LET W == {id \in AliveTeam(ps, NEUTRAL_TEAM) : RoleCheckWin(ps, id)}
    IN  IF W = {} THEN NoId ELSE Min(W)

\* (variant: the Neutral scan comes before the two team tests)
WinDecisionNeutralFirst(ps) ==
    LET mafia_alive == Cardinality(AliveTeam(ps, MAFIA_TEAM))
        citizen_alive == Cardinality(AliveTeam(ps, CITIZEN_TEAM))
    IN  IF AliveIds(ps) = {}
        THEN [ended |-> TRUE, team |-> NoTeam, player |-> NoId]
        ELSE IF NeutralWinner(ps) # NoId
        THEN [ended |-> TRUE, team |-> NEUTRAL_TEAM, player |-> NeutralWinner(ps)]
        ELSE IF mafia_alive >= citizen_alive /\ mafia_alive > 0
        THEN [ended |-> TRUE, team |-> MAFIA_TEAM, player |-> NoId]
        ELSE IF mafia_alive = 0 /\ citizen_alive > 0
        THEN [ended |-> TRUE, team |-> CITIZEN_TEAM, player |-> NoId]
        ELSE [ended |-> FALSE, team |-> NoTeam, player |-> NoId]

\* the decision of _check_win_condition once the game is known to be started
WinDecision(ps) ==
    LET mafia_alive == Cardinality(AliveTeam(ps, MAFIA_TEAM))
        citizen_alive == Cardinality(AliveTeam(ps, CITIZEN_TEAM))
    IN  IF AliveIds(ps) = {}
        THEN [ended |-> TRUE, team |-> NoTeam, player |-> NoId]
        ELSE IF mafia_alive >= citizen_alive /\ mafia_alive > 0
        THEN [ended |-> TRUE, team |-> MAFIA_TEAM, player |-> NoId]
        ELSE IF mafia_alive = 0 /\ citizen_alive > 0
        THEN [ended |-> TRUE, team |-> CITIZEN_TEAM, player |-> NoId]
        ELSE IF NeutralWinner(ps) # NoId
        THEN [ended |-> TRUE, team |-> NEUTRAL_TEAM, player |-> NeutralWinner(ps)]
        ELSE [ended |-> FALSE, team |-> NoTeam, player |-> NoId]

RECURSIVE PMEndGame(_, _)
RECURSIVE GMEndGame(_, _, _, _)
RECURSIVE OnPhaseChange(_, _, _, _)
RECURSIVE CheckWinCondition(_, _)

\* PhaseManager.end_game; depth counts the nested calls of the handler
PMEndGame(s, depth) ==
    IF depth > MaxCallDepth THEN [s EXCEPT !.depth_exceeded = TRUE]
    ELSE LET old_phase == s.current_phase
             ended == [CancelTimers(s) EXCEPT !.current_phase = "end"]
         IN  IF EndGameNotifies(old_phase)
             THEN OnPhaseChange(ended, old_phase, "end", depth + 1)
             ELSE ended

\* GameManager._end_game
GMEndGame(s, winning_team, winning_player_id, depth) ==
    LET ended == PMEndGame([s EXCEPT !.game_started = FALSE], depth)
    IN  [ended EXCEPT !.end_log = Append(@, <<winning_team, winning_player_id>>)]

\* GameManager._check_win_condition
CheckWinCondition(s, depth) ==
    IF ~s.game_started THEN s
    ELSE LET d == WinDecision(s.players)
             logged == [s EXCEPT !.win_log = Append(@, d)]
         IN  IF d.ended THEN GMEndGame(logged, d.team, d.player, depth)
             ELSE logged

\* GameManager._start_day
StartDay(s, depth) ==
    CheckWinCondition(
        [s EXCEPT !.vote_results = NoVotes,
                  !.players = [id \in DOMAIN s.players |->
                                  ResetVote(s.players, id)[id]]],
        depth)

\* GameManager._start_night
StartNight(s, depth) == CheckWinCondition(s, depth)

\* GameManager._on_phase_change, the callback of the PhaseManager
OnPhaseChange(s, old_phase, new_phase, depth) ==
    LET found == [game_started |-> s.game_started,
                  without_role |->
                      {id \in DOMAIN s.players : s.players[id].role = NoRole}]
        noted == [s EXCEPT !.phase_log = Append(@, <<old_phase, new_phase>>),
                           !.callback_saw = Append(@, found)]
    IN  CASE new_phase = "day" -> StartDay(ProcessNightActions(noted), depth)
          [] new_phase = "night" -> StartNight(ProcessDayVotes(noted), depth)
          [] new_phase = "end" -> GMEndGame(noted, NoTeam, NoId, depth)
          [] OTHER -> noted

\* the timer PhaseManager.change_phase sets at its end, whatever the
\* callback did to current_phase
TimerAfterChange(s, new_phase) ==
    IF new_phase \in {"day", "night"} THEN SetTimer(s, new_phase) ELSE s

\* PhaseManager.change_phase
ChangePhase(s, new_phase) ==
    LET old_phase == s.current_phase
        switched == CancelTimers([s EXCEPT !.current_phase = new_phase])
    IN  TimerAfterChange(OnPhaseChange(switched, old_phase, new_phase, 0), new_phase)

\* PhaseManager._day_timeout
DayTimeout(s) == ChangePhase(s, "night")

\* PhaseManager._night_timeout
NightTimeout(s) == ChangePhase([s EXCEPT !.day_count = @ + 1], "day")

----------------------------------------------------------------------------
(* GameManager: the operations offered to the transport layer.  Each        *)
(* returns its return value and the session it leaves.                      *)

Without(f, key) ==
    IF DOMAIN f \ {key} = {} THEN <<>>
    ELSE [k \in DOMAIN f \ {key} |-> f[k]]

Result(ret, s) == [ret |-> ret, session |-> s]

\* (variant: an enrolled id is enrolled again, replacing its Player)
AddPlayerOpOverwrites(s, user_id) ==
    IF s.game_started THEN Result(FALSE, s)
    ELSE Result(TRUE, [Fresh(s) EXCEPT !.players =
                          (user_id :> NewPlayer) @@ Without(s.players, user_id)])

\* GameManager.add_player
AddPlayerOp(s, user_id) ==
    IF s.game_started THEN Result(FALSE, s)
    ELSE IF user_id \notin DOMAIN s.players
    THEN Result(TRUE, [Fresh(s) EXCEPT !.players = (user_id :> NewPlayer) @@ s.players])
    ELSE Result(FALSE, s)

\* (variant: a player can be removed while a game runs)
RemovePlayerOpInGame(s, user_id) ==
    IF user_id \in DOMAIN s.players
    THEN Result(TRUE, [Fresh(s) EXCEPT !.players = Without(s.players, user_id)])
    ELSE Result(FALSE, s)

\* GameManager.remove_player
RemovePlayerOp(s, user_id) ==
    IF s.game_started THEN Result(FALSE, s)
    ELSE IF user_id \in DOMAIN s.players
    THEN Result(TRUE, [Fresh(s) EXCEPT !.players = Without(s.players, user_id)])
    ELSE Result(FALSE, s)

\* (variant: game_started is set after the PhaseManager has started)
StartGameOpStartsLate(s, shuffled) ==
    IF s.game_started THEN Result(FALSE, s)
    ELSE IF Cardinality(DOMAIN s.players) < MIN_PLAYERS THEN Result(FALSE, s)
    ELSE LET roles == AssignRoles(s.settings, shuffled)
             assigned == [id \in DOMAIN s.players |->
                             IF id \in DOMAIN roles
                             THEN AssignRole(s.players[id], id, roles[id])
                             ELSE s.players[id]]
             started == [Fresh(s) EXCEPT !.players = assigned, !.day_count = 1]
         IN  Result(TRUE, [ChangePhase(started, "night") EXCEPT
                              !.game_started = TRUE])

\* GameManager.start_game with PhaseManager.start_game; shuffled is the
\* order random.shuffle produced in assign_roles
StartGameOp(s, shuffled) ==
    IF s.game_started THEN Result(FALSE, s)
    ELSE IF Cardinality(DOMAIN s.players) < MIN_PLAYERS THEN Result(FALSE, s)
    ELSE LET roles == AssignRoles(s.settings, shuffled)
             assigned == [id \in DOMAIN s.players |->
                             IF id \in DOMAIN roles
                             THEN AssignRole(s.players[id], id, roles[id])
                             ELSE s.players[id]]
             started == [Fresh(s) EXCEPT !.players = assigned,
                                         !.game_started = TRUE,
                                         !.day_count = 1]
         IN  Result(TRUE, ChangePhase(started, "night"))

\* GameManager._reset_game
ResetGame(s) == [s EXCEPT !.players = <<>>, !.vote_results = NoVotes]

\* GameManager.stop_game
StopGameOp(s) ==
    IF ~s.game_started THEN s
    ELSE ResetGame(PMEndGame([Fresh(s) EXCEPT !.game_started = FALSE], 0))

\* (variant: the target's alive flag is not looked at)
VoteAcceptedDeadTarget(s, voter_id, target_id) ==
    /\ s.game_started
    /\ s.current_phase = "day"
    /\ voter_id \in DOMAIN s.players
    /\ target_id \in DOMAIN s.players
    /\ s.players[voter_id].alive

\* the checks of GameManager.vote before it changes anything
VoteAccepted(s, voter_id, target_id) ==
    /\ s.game_started
    /\ s.current_phase = "day"
    /\ voter_id \in DOMAIN s.players
    /\ target_id \in DOMAIN s.players
    /\ s.players[voter_id].alive
    /\ s.players[target_id].alive

\* GameManager.vote, "cancel the previous vote"
RetractVote(vr, ps, voter_id) ==
    LET previous == ps[voter_id].voted_for
    IN  IF previous # NoId /\ previous \in DOMAIN vr
        THEN IF vr[previous] - 1 <= 0 THEN Without(vr, previous)
             ELSE [vr EXCEPT ![previous] = @ - 1]
        ELSE vr

\* GameManager.vote, "register the new vote"
RegisterVote(vr, ps, voter_id, target_id) ==
    LET vote_weight == AddVote(ps, target_id, voter_id)
        before == IF target_id \in DOMAIN vr THEN vr[target_id] ELSE 0
    IN  (target_id :> before + vote_weight) @@ vr

\* GameManager.vote after its checks
VoteWrites(s, voter_id, target_id) ==
    LET retracted == RetractVote(s.vote_results, s.players, voter_id)
    IN  [Fresh(s) EXCEPT
            !.players[voter_id].voted_for = target_id,
            !.vote_results = RegisterVote(retracted, s.players, voter_id, target_id)]

\* GameManager.vote
VoteOp(s, voter_id, target_id) ==
    IF ~VoteAccepted(s, voter_id, target_id) THEN Result(FALSE, s)
    ELSE Result(TRUE, VoteWrites(s, voter_id, target_id))

\* the checks of GameManager.perform_night_action before the role acts
NightActionAccepted(s, player_id, target_id) ==
    /\ s.game_started
    /\ s.current_phase = "night"
    /\ player_id \in DOMAIN s.players
    /\ target_id \in DOMAIN s.players
    /\ s.players[player_id].alive
    /\ s.players[player_id].role # NoRole
    /\ HasNightAction(s.players[player_id].role)

\* GameManager.perform_night_action after its checks: the role acts on the
\* action set of the PhaseManager
NightActionWrites(s, player_id, target_id) ==
    LET r == RolePerform(s.players, s.night_actions, player_id, target_id)
    IN  IF r.players = s.players /\ r.night_actions = s.night_actions
        THEN s
        ELSE [Fresh(s) EXCEPT !.players = r.players,
                              !.night_actions = r.night_actions]

\* GameManager.perform_night_action
PerformNightActionOp(s, player_id, target_id) ==
    IF ~NightActionAccepted(s, player_id, target_id) THEN Result(FALSE, s)
    ELSE Result(TRUE, NightActionWrites(s, player_id, target_id))

\* GameManager.get_night_action_result
GetNightActionResultOp(s, player_id, draw) ==
    IF player_id \notin DOMAIN s.players \/ s.players[player_id].role = NoRole
    THEN Result(<<"no_result">>, s)
    ELSE LET r == RoleResult(s.players, s.night_actions, player_id, draw)
         IN  IF r.players = s.players THEN Result(r.text, s)
             ELSE Result(r.text, [Fresh(s) EXCEPT !.players = r.players])

----------------------------------------------------------------------------
(* Actions *)

\* the settings bundles the sessions are created with (role_counts, in the
\* key order of the dict)
RoleCountsClassic == << <<"Mafia", 1>>, <<"Doctor", 2>>, <<"Agitator", 1>> >>
RoleCountsNeutral == << <<"Cupid", 1>>, <<"SerialKiller", 2>>, <<"Cultist", 1>> >>
RoleCountsMixed == << <<"Mafia", 1>>, <<"Cultist", 1>> >>
RoleCountsRoles == << <<"Mafia", 1>> >>
RoleCountsChoices == {RoleCountsClassic, RoleCountsNeutral, RoleCountsMixed}

Phases == {"open", "night", "day", "end"}
TimerKinds == {"day", "night"}

InFlight == firing["day"] + firing["night"]

\* GameManager.__init__ and PhaseManager.__init__
InitWith(role_counts) ==
    /\ settings = role_counts
    /\ players = <<>>
    /\ game_started = FALSE
    /\ vote_results = NoVotes
    /\ current_phase = "open"
    /\ day_count = 0
    /\ phase_timers = {}
    /\ firing = [k \in TimerKinds |-> 0]
    /\ night_actions = NoActions
    /\ phase_log = <<>>
    /\ end_log = <<>>
    /\ win_log = <<>>
    /\ last_resolved = NoActions
    /\ depth_exceeded = FALSE
    /\ submissions = 0
    /\ messages = <<>>
    /\ nights = 0
    /\ pending = NoCall
    /\ callback_saw = <<>>

\* users enrol in ascending id order, so that the order of the players dict
\* is the order of the ids.  A session is followed through its first game:
\* enrolment and start_game are taken before the phase machine has started
AddPlayer(user_id) ==
    /\ current_phase = "open"
    /\ \A id \in DOMAIN players : id < user_id
    /\ Becomes(AddPlayerOp(Session, user_id).session)

RemovePlayer(user_id) ==
    /\ current_phase = "open"
    /\ user_id \in DOMAIN players
    /\ Becomes(RemovePlayerOp(Session, user_id).session)

StartGame ==
    /\ current_phase = "open"
    /\ \E shuffled \in Shuffles(DOMAIN players) :
          Becomes(StartGameOp(Session, shuffled).session)

StopGame ==
    /\ game_started
    /\ Becomes(StopGameOp(Session))

\* A submission that changes the session counts towards MaxSubmissions.
\* (A rejected call, and an accepted one that registers nothing, leave the
\* session as it is: stuttering steps.)
Submit(s) ==
    /\ s # Session
    /\ submissions < MaxSubmissions
    /\ Becomes([s EXCEPT !.submissions = @ + 1])

Vote(voter_id, target_id) ==
    /\ VoteAccepted(Session, voter_id, target_id)
    /\ Submit(VoteOp(Session, voter_id, target_id).session)

\* night actions are followed in the nights whose Timer the model lets fire
PerformNightAction(player_id, target_id) ==
    /\ NightActionAccepted(Session, player_id, target_id)
    /\ nights < MaxNights
    /\ Submit(PerformNightActionOp(Session, player_id, target_id).session)

\* the transport layer asks for results while the night is on
GetNightActionResult(player_id) ==
    /\ player_id \in DOMAIN players
    /\ players[player_id].role # NoRole
    /\ game_started /\ current_phase = "night"
    /\ nights < MaxNights
    /\ \E draw \in DrawsOf(players[player_id].role) :
          Becomes(GetNightActionResultOp(Session, player_id, draw).session)

\* PhaseManager.change_phase called from outside while a game runs
ForceChangePhase(new_phase) ==
    /\ game_started
    /\ Becomes(ChangePhase(Fresh(Session), new_phase))

\* a Timer fires and runs its function before anything else happens
TimerFire(kind) ==
    /\ kind \in phase_timers
    /\ InFlight = 0
    /\ kind = "night" => nights < MaxNights
    /\ LET s == [Fresh(Session) EXCEPT !.phase_timers = @ \ {kind}]
       IN  Becomes(IF kind = "day" THEN DayTimeout(s)
                   ELSE NightTimeout([s EXCEPT !.nights = @ + 1]))

\* the wait of a Timer elapses: from here on cancel() has no effect
TimerExpire(kind) ==
    /\ kind \in phase_timers
    /\ InFlight < MaxFiring
    /\ kind = "night" => nights + firing["night"] < MaxNights
    /\ phase_timers' = phase_timers \ {kind}
    /\ firing' = [firing EXCEPT ![kind] = @ + 1]
    /\ UNCHANGED <<settings, players, game_started, vote_results, current_phase,
                   day_count, night_actions, phase_log, end_log, win_log,
                   last_resolved, depth_exceeded, submissions, messages, nights,
                   pending, callback_saw>>

\* the Timer thread runs its function
TimerRun(kind) ==
    /\ firing[kind] > 0
    /\ LET s == [Fresh(Session) EXCEPT !.firing[kind] = @ - 1]
       IN  Becomes(IF kind = "day" THEN DayTimeout(s)
                   ELSE NightTimeout([s EXCEPT !.nights = @ + 1]))

Next ==
    \/ \E user_id \in UserIds : AddPlayer(user_id)
    \/ \E user_id \in UserIds : RemovePlayer(user_id)
    \/ StartGame
    \/ StopGame
    \/ \E voter_id, target_id \in UserIds : Vote(voter_id, target_id)
    \/ \E player_id, target_id \in UserIds : PerformNightAction(player_id, target_id)
    \/ \E player_id \in UserIds : GetNightActionResult(player_id)
    \/ \E kind \in TimerKinds : TimerFire(kind)

\* the engine with its handlers serialised and its phases driven by the
\* timers, in a session set up with a Mafia, two Doctors and an Agitator
Init == InitWith(RoleCountsClassic)
Spec == Init /\ [][Next]_vars

\* the same engine in a session set up with Neutral roles only
InitNeutral == InitWith(RoleCountsNeutral)
SpecNeutral == InitNeutral /\ [][Next]_vars

NextRace ==
    \/ \E user_id \in UserIds : AddPlayer(user_id)
    \/ StartGame
    \/ StopGame
    \/ \E new_phase \in {"day", "night"} : ForceChangePhase(new_phase)
    \/ \E kind \in TimerKinds : TimerExpire(kind)
    \/ \E kind \in TimerKinds : TimerRun(kind)

\* the same engine in a session set up with a Mafia and a Cultist; the
\* other players become Citizens
InitMixed == InitWith(RoleCountsMixed)
SpecMixed == InitMixed /\ [][Next]_vars

\* The Player objects of a registry used directly, as the unit tests do:
\* add_lover, protect, reset_status and kill on enrolled players
Links == Cardinality({pair \in UserIds \X UserIds :
                         /\ pair[1] \in DOMAIN players
                         /\ pair[2] \in players[pair[1]].lovers})

AddLoverCall(id, lover_id) ==
    /\ id \in DOMAIN players /\ lover_id \in DOMAIN players
    /\ id # lover_id
    /\ lover_id \notin players[id].lovers
    /\ Links < MaxLinks
    /\ Becomes([Session EXCEPT !.players = AddLover(players, id, lover_id)])

ProtectCall(id) ==
    /\ id \in DOMAIN players
    /\ ~players[id].protected
    /\ Becomes([Session EXCEPT !.players = Protect(players, id)])

ResetStatusCall(id) ==
    /\ id \in DOMAIN players
    /\ players[id].protected
    /\ Becomes([Session EXCEPT !.players = ResetStatus(players, id)])

KillCall(id, killer_id) ==
    /\ id \in DOMAIN players
    /\ LET r == Kill(players, id, killer_id)
       IN  Becomes([Session EXCEPT !.players = r.players,
                                   !.messages = r.messages])

NextPlayer ==
    \/ \E user_id \in UserIds : AddPlayer(user_id)
    \/ \E id, lover_id \in UserIds : AddLoverCall(id, lover_id)
    \/ \E id \in UserIds : ProtectCall(id)
    \/ \E id \in UserIds : ResetStatusCall(id)
    \/ \E id \in UserIds, killer_id \in UserIds \cup {NoId} : KillCall(id, killer_id)

SpecPlayer == Init /\ [][NextPlayer]_vars

\* a registry of MaxBonded players on which add_lover and protect have been
\* called in any way: every lover graph, with chains, cycles and players
\* bonded to themselves
InitBonds ==
    /\ \E graph \in [1..MaxBonded -> SUBSET (1..MaxBonded)],
          shielded \in SUBSET (1..MaxBonded) :
          players = [id \in 1..MaxBonded |->
                        [NewPlayer EXCEPT !.lovers = graph[id],
                                          !.protected = id \in shielded]]
    /\ settings = RoleCountsClassic
    /\ game_started = FALSE
    /\ vote_results = NoVotes
    /\ current_phase = "open"
    /\ day_count = 0
    /\ phase_timers = {}
    /\ firing = [k \in TimerKinds |-> 0]
    /\ night_actions = NoActions
    /\ phase_log = <<>>
    /\ end_log = <<>>
    /\ win_log = <<>>
    /\ last_resolved = NoActions
    /\ depth_exceeded = FALSE
    /\ submissions = 0
    /\ messages = <<>>
    /\ nights = 0
    /\ pending = NoCall
    /\ callback_saw = <<>>

NextBonds == \E id \in UserIds : KillCall(id, NoId)

\* Player.kill on such a registry
SpecBonds == InitBonds /\ [][NextBonds]_vars

\* Player.assign_role called directly, as the unit tests do, on a player
\* RoleManager left a Citizen, with a role object of a class chosen by the
\* caller
DirectRoleClasses == {"Detective", "Doctor", "SerialKiller", "Witch"}
DirectRoles ==
    {id \in DOMAIN players : players[id].role \in DirectRoleClasses \cup {"Psycho"}}

AssignRoleCall(id, role, draw) ==
    /\ game_started /\ current_phase = "night" /\ nights = 0
    /\ night_actions = NoActions
    /\ id \in DOMAIN players
    /\ players[id].role = "Citizen"
    /\ Cardinality(DirectRoles) < MaxDirectRoles
    /\ Becomes([Fresh(Session) EXCEPT !.players[id] =
                    IF role = "Psycho" THEN AssignPsycho(@, id, draw)
                    ELSE AssignRole(@, id, role)])

NextRoles ==
    \/ \E user_id \in UserIds : AddPlayer(user_id)
    \/ StartGame
    \/ \E id \in UserIds, role \in DirectRoleClasses : AssignRoleCall(id, role, 1)
    \/ \E player_id, target_id \in UserIds : PerformNightAction(player_id, target_id)
    \/ \E kind \in TimerKinds : TimerFire(kind)

\* the engine in a session set up with a Mafia, in which Citizens are given
\* a Detective, Doctor, SerialKiller or Witch role by direct assignment
InitRoles == InitWith(RoleCountsRoles)
SpecRoles == InitRoles /\ [][NextRoles]_vars

NextPsycho ==
    \/ \E user_id \in UserIds : AddPlayer(user_id)
    \/ StartGame
    \/ \E id \in UserIds, draw \in Draws : AssignRoleCall(id, "Psycho", draw)
    \/ \E player_id, target_id \in UserIds : PerformNightAction(player_id, target_id)
    \/ \E player_id \in UserIds : GetNightActionResult(player_id)
    \/ \E kind \in TimerKinds : TimerFire(kind)

\* the same session in which Citizens are given the Psycho role, which
\* RoleManager does not hand out
SpecPsycho == InitRoles /\ [][NextPsycho]_vars

\* BusDriver.on_night_end called on the action set of the PhaseManager
OnNightEndCall ==
    /\ game_started /\ current_phase = "night"
    /\ \E id \in AliveIds(players) : players[id].role = "BusDriver"
    /\ Becomes([Fresh(Session) EXCEPT !.night_actions = OnNightEnd(@)])

\* process_night_actions of phase_manager_updated.py called with the players
\* and the action set of the session; the players it returns are kept
ProcessNightActionsUpdatedCall ==
    /\ game_started /\ current_phase = "night"
    /\ night_actions # NoActions
    /\ Becomes([Fresh(Session) EXCEPT
                   !.players = ProcessNightActionsUpdated(@, night_actions),
                   !.last_resolved = night_actions])

\* Architect.update_prediction of the Architect id
UpdatePredictionCall(id, target_id, predicted_role) ==
    /\ game_started /\ current_phase = "night"
    /\ id \in AliveIds(players) /\ players[id].role = "Architect"
    /\ Has(night_actions, "architect_predict")
    /\ night_actions["architect_predict"].target_id = target_id
    /\ Becomes([Fresh(Session) EXCEPT !.players[id].predicted_roles =
                   (target_id :> predicted_role) @@ @])

\* Architect.on_night_end of the Architect id called on the players and the
\* action set of the session
ArchitectNightEndCall(id) ==
    /\ game_started /\ current_phase = "night"
    /\ id \in AliveIds(players) /\ players[id].role = "Architect"
    /\ Has(night_actions, "architect_predict")
    /\ LET predict == night_actions["architect_predict"]
           target_id == predict.target_id
           predicted_role == predict.predicted_role
       IN  Becomes([Fresh(Session) EXCEPT !.night_actions =
              IF /\ predict.architect_id = id
                 /\ target_id \in DOMAIN players
                 /\ predicted_role # NoRole
              THEN IF players[target_id].role = predicted_role
                   THEN Put(@, "architect_result",
                            [architect_id |-> id, target_id |-> target_id,
                             success |-> TRUE])
                   ELSE Put(@, "architect_result",
                            [architect_id |-> id, target_id |-> NoId,
                             success |-> FALSE])
              ELSE @])

NextArchitect ==
    \/ \E user_id \in UserIds : AddPlayer(user_id)
    \/ StartGame
    \/ \E id \in UserIds : AssignRoleCall(id, "Architect", 1)
    \/ \E player_id, target_id \in UserIds : PerformNightAction(player_id, target_id)
    \/ \E id, target_id \in UserIds, predicted_role \in {"Citizen", "Mafia"} :
          UpdatePredictionCall(id, target_id, predicted_role)
    \/ \E id \in UserIds : ArchitectNightEndCall(id)
    \/ ProcessNightActionsUpdatedCall
    \/ \E kind \in TimerKinds : TimerFire(kind)

\* the same session in which Citizens are given the Architect role; the
\* prediction is updated, and the night is ended and resolved by the hooks
\* of the additional modules, called directly
SpecArchitect == InitRoles /\ [][NextArchitect]_vars

NextNights ==
    \/ \E user_id \in UserIds : AddPlayer(user_id)
    \/ StartGame
    \/ \E player_id, target_id \in UserIds : PerformNightAction(player_id, target_id)
    \/ \E new_phase \in {"day", "night"} : ForceChangePhase(new_phase)
    \/ \E kind \in TimerKinds : TimerFire(kind)

\* the classic session over several nights: besides the Timers, whose
\* nights are bounded, change_phase moves the game from night to day and
\* back, and night actions are submitted in every such night
SpecNights == Init /\ [][NextNights]_vars

\* GameManager.vote, followed to the vote_count that Player.add_vote keeps
\* in the target
VoteCounts(voter_id, target_id) ==
    /\ VoteAccepted(Session, voter_id, target_id)
    /\ submissions < MaxSubmissions
    /\ Becomes([VoteWrites(Session, voter_id, target_id) EXCEPT
                   !.players[target_id].vote_count =
                       @ + AddVote(players, target_id, voter_id),
                   !.submissions = @ + 1])

NextVotes ==
    \/ \E user_id \in UserIds : AddPlayer(user_id)
    \/ StartGame
    \/ \E voter_id, target_id \in UserIds : VoteCounts(voter_id, target_id)
    \/ \E kind \in TimerKinds : TimerFire(kind)

\* the votes of the days of a game, with the vote_count of every Player
SpecVotes == Init /\ [][NextVotes]_vars

\* GameManager.add_player called while a game runs
AddPlayerInGame(user_id) ==
    /\ game_started
    /\ Becomes(AddPlayerOp(Session, user_id).session)

\* GameManager.remove_player called while a game runs
RemovePlayerInGame(user_id) ==
    /\ game_started
    /\ Becomes(RemovePlayerOp(Session, user_id).session)

NextGame ==
    \/ \E user_id \in UserIds : AddPlayer(user_id)
    \/ StartGame
    \/ StopGame
    \/ \E user_id \in UserIds : AddPlayerInGame(user_id)
    \/ \E user_id \in UserIds : RemovePlayerInGame(user_id)
    \/ \E voter_id, target_id \in UserIds : Vote(voter_id, target_id)
    \/ \E player_id, target_id \in UserIds : PerformNightAction(player_id, target_id)
    \/ \E kind \in TimerKinds : TimerFire(kind)

\* the engine with players trying to join and to leave while a game runs,
\* in a session set up with a Mafia; the other players become Citizens
SpecGame == InitWith(RoleCountsRoles) /\ [][NextGame]_vars

\* phase_manager_updated.py, PhaseManager._change_phase with
\* _set_phase_timer: the one phase_timer is cancelled and, the duration of
\* every phase but end being positive, a Timer of the new phase starts
ChangePhaseUpdated(s, new_phase) ==
    [s EXCEPT !.current_phase = new_phase,
              !.phase_log = Append(@, <<s.current_phase, new_phase>>),
              !.phase_timers = IF new_phase = "end" THEN {} ELSE {new_phase}]

\* the transition _on_phase_timer_end chooses in the phase it finds
AfterPhase(phase) ==
    CASE phase = "night" -> "day"
      [] phase = "day" -> "vote"
      [] phase = "vote" -> "night"
      [] OTHER -> phase

\* phase_manager_updated.py, PhaseManager.start_game
StartGameUpdatedCall ==
    /\ Becomes(ChangePhaseUpdated(Fresh(Session), "night"))

\* PhaseManager.force_next_phase: _on_phase_timer_end on the caller's thread
ForceNextPhaseCall ==
    /\ Becomes(IF AfterPhase(current_phase) = current_phase
               THEN Fresh(Session)
               ELSE ChangePhaseUpdated(Fresh(Session),
                                       AfterPhase(current_phase)))

\* phase_manager_updated.py, PhaseManager.end_game
EndGameUpdatedCall ==
    /\ Becomes([Fresh(Session) EXCEPT
                   !.phase_timers = {},
                   !.phase_log = IF current_phase # "end"
                                 THEN <<<<current_phase, "end">>>> ELSE <<>>,
                   !.current_phase = "end"])

\* phase_manager_updated.py, PhaseManager.record_night_action
RecordNightActionCall(action_type, action_data) ==
    Becomes([Fresh(Session) EXCEPT
               !.night_actions = Put(@, action_type, action_data)])

\* phase_manager_updated.py, PhaseManager.clear_night_actions
ClearNightActionsCall == Becomes(ClearNightActions(Fresh(Session)))

\* the wait of the phase Timer elapses and its thread, in
\* _on_phase_timer_end, tests current_phase (lines 125-130)
PhaseTimerTests(kind) ==
    /\ kind \in phase_timers
    /\ pending = NoCall
    /\ Becomes([Fresh(Session) EXCEPT
                   !.phase_timers = @ \ {kind},
                   !.pending = IF AfterPhase(current_phase) = current_phase
                               THEN NoCall
                               ELSE [new_phase |-> AfterPhase(current_phase)]])

\* the Timer thread goes on to the _change_phase call of the branch it took
PhaseTimerChanges ==
    /\ pending # NoCall
    /\ Becomes(ChangePhaseUpdated([Fresh(Session) EXCEPT !.pending = NoCall],
                                   pending.new_phase))

NextPhases ==
    \/ StartGameUpdatedCall
    \/ ForceNextPhaseCall
    \/ EndGameUpdatedCall
    \/ \E action_type \in {"mafia_kill", "doctor_heal"}, target_id \in 1..2 :
          RecordNightActionCall(action_type, [target_id |-> target_id])
    \/ ClearNightActionsCall
    \/ \E kind \in {"night", "day", "vote"} : PhaseTimerTests(kind)
    \/ PhaseTimerChanges

\* the PhaseManager of phase_manager_updated.py on its own, its Timer
\* thread running beside the callers of force_next_phase and end_game
SpecPhases == Init /\ [][NextPhases]_vars

NextExtended ==
    \/ \E user_id \in UserIds : AddPlayer(user_id)
    \/ StartGame
    \/ \E id \in UserIds, role \in {"Bomber", "SerialKiller"} :
          AssignRoleCall(id, role, 1)
    \/ \E player_id, target_id \in UserIds : PerformNightAction(player_id, target_id)
    \/ ProcessNightActionsUpdatedCall
    \/ \E kind \in TimerKinds : TimerFire(kind)

\* the engine in a session set up with a Mafia, in which Citizens are given
\* the Bomber or SerialKiller role, and in which the night may also be
\* resolved by the PhaseManager of phase_manager_updated.py
SpecExtended == InitRoles /\ [][NextExtended]_vars

NextHooks ==
    \/ \E user_id \in UserIds : AddPlayer(user_id)
    \/ StartGame
    \/ \E id \in UserIds, role \in {"Architect", "BusDriver"} :
          AssignRoleCall(id, role, 1)
    \/ \E player_id, target_id \in UserIds : PerformNightAction(player_id, target_id)
    \/ OnNightEndCall
    \/ \E kind \in TimerKinds : TimerFire(kind)

\* the same session in which Citizens are given the Architect or BusDriver
\* role, and in which on_night_end, a hook the engine never calls, may be
\* called directly
SpecHooks == InitRoles /\ [][NextHooks]_vars

\* Cultist.on_day_start of the Cultist id called with the players and the
\* action set of the session; the players it returns are kept. The new
\* role object is Cultist(target_id) with a copy of the caller's roster
OnDayStartCall(id) ==
    /\ game_started /\ current_phase = "night"
    /\ id \in AliveIds(players) /\ players[id].role = "Cultist"
    /\ Has(night_actions, "cultist_convert")
    /\ LET convert == night_actions["cultist_convert"]
           target_id == convert.target_id
       IN  /\ convert.success
           /\ target_id \in AliveIds(players)
           /\ Becomes([Fresh(Session) EXCEPT !.players[target_id] =
                          [AssignRole(@, target_id, "Cultist")
                              EXCEPT !.cultists = players[id].cultists]])

NextCult ==
    \/ \E user_id \in UserIds : AddPlayer(user_id)
    \/ StartGame
    \/ \E player_id, target_id \in UserIds : PerformNightAction(player_id, target_id)
    \/ \E player_id \in UserIds : GetNightActionResult(player_id)
    \/ \E id \in UserIds : OnDayStartCall(id)
    \/ \E kind \in TimerKinds : TimerFire(kind)

\* the engine in a session with a Cultist, in which on_day_start, a hook the
\* engine never calls, may be called directly
SpecCult == InitMixed /\ [][NextCult]_vars

\* The bot thread inside vote or perform_night_action, with the Timer thread
\* running beside it: the call has passed its checks (no lock is held) and
\* has not yet written
VoteChecked(voter_id, target_id) ==
    /\ pending = NoCall
    /\ submissions < MaxSubmissions
    /\ VoteAccepted(Session, voter_id, target_id)
    /\ Becomes([Session EXCEPT !.pending = <<"vote", voter_id, target_id>>])

VoteWritten ==
    /\ pending # NoCall
    /\ pending[1] = "vote"
    /\ Becomes([VoteWrites(Session, pending[2], pending[3]) EXCEPT
                    !.pending = NoCall, !.submissions = @ + 1])

NightActionChecked(player_id, target_id) ==
    /\ pending = NoCall
    /\ submissions < MaxSubmissions
    /\ NightActionAccepted(Session, player_id, target_id)
    /\ Becomes([Session EXCEPT
                    !.pending = <<"perform_night_action", player_id, target_id>>])

NightActionWritten ==
    /\ pending # NoCall
    /\ pending[1] = "perform_night_action"
    /\ Becomes([NightActionWrites(Session, pending[2], pending[3]) EXCEPT
                    !.pending = NoCall, !.submissions = @ + 1])

NextThreads ==
    \/ \E user_id \in UserIds : AddPlayer(user_id)
    \/ StartGame
    \/ \E voter_id, target_id \in UserIds : VoteChecked(voter_id, target_id)
    \/ VoteWritten
    \/ \E player_id, target_id \in UserIds : NightActionChecked(player_id, target_id)
    \/ NightActionWritten
    \/ \E kind \in TimerKinds : TimerFire(kind)

\* the engine with the bot thread and the Timer thread interleaved inside
\* vote and perform_night_action
SpecThreads == InitMixed /\ [][NextThreads]_vars

\* the same GameManager used for another game after one has ended
AddPlayerAgain(user_id) ==
    /\ current_phase = "end"
    /\ \A id \in DOMAIN players : id < user_id
    /\ Becomes(AddPlayerOp(Session, user_id).session)

StartGameAgain ==
    /\ current_phase = "end"
    /\ \E shuffled \in Shuffles(DOMAIN players) :
          Becomes(StartGameOp(Session, shuffled).session)

NextRestart ==
    \/ \E user_id \in UserIds : AddPlayer(user_id)
    \/ StartGame
    \/ StopGame
    \/ \E user_id \in UserIds : AddPlayerAgain(user_id)
    \/ StartGameAgain
    \/ \E player_id, target_id \in UserIds : PerformNightAction(player_id, target_id)
    \/ \E kind \in TimerKinds : TimerFire(kind)

\* the engine of the Mafia/Cultist session, stopped and started again
SpecRestart == InitMixed /\ [][NextRestart]_vars

\* the phase machine with Timer threads running beside the callers
SpecRace == (\E rc \in RoleCountsChoices : InitWith(rc)) /\ [][NextRace]_vars

TypeOK ==
    /\ DOMAIN players \subseteq UserIds
    /\ current_phase \in Phases
    /\ day_count \in 0..(MaxNights + 1)
    /\ phase_timers \subseteq TimerKinds
    /\ game_started \in BOOLEAN

----------------------------------------------------------------------------
(* Properties *)

Alive(id) == id \in DOMAIN players /\ players[id].alive
Dead(id) == id \in DOMAIN players /\ ~players[id].alive

\* the last handler ran on_phase_change(old_phase, new_phase) first
Notified(old_phase, new_phase) ==
    phase_log # <<>> /\ phase_log[1] = <<old_phase, new_phase>>

\* this step is a night -> day transition with its night resolution
NightResolves == current_phase = "night" /\ Notified("night", "day")'

\* this step is a day -> night transition with its vote resolution
DayResolves == current_phase = "day" /\ Notified("day", "night")'

\* C1: a dead player can neither vote, nor be voted for, nor perform a
\* night action: each such call returns False and leaves the session (vote
\* tally and night-action set included) exactly as it was
C1_DeadPlayersAreOut ==
    \A p \in UserIds : Dead(p) =>
        \A t \in UserIds :
            /\ VoteOp(Session, p, t) = Result(FALSE, Session)
            /\ VoteOp(Session, t, p) = Result(FALSE, Session)
            /\ PerformNightActionOp(Session, p, t) = Result(FALSE, Session)

\* a day with a dead player in which votes are being cast
C1_Witness ==
    /\ game_started /\ current_phase = "day"
    /\ \E p \in UserIds : Dead(p)
    /\ DOMAIN vote_results # {}

\* the votes currently standing for candidate a
StandingVoters(a) == {v \in DOMAIN players : players[v].voted_for = a}
Tally(a) == IF a \in DOMAIN vote_results THEN vote_results[a] ELSE 0

\* C2: no double counting: when a voter who voted for a moves the vote to
\* another candidate b, nothing of that vote stays with a; so during a day a
\* candidate that no voter currently votes for has no votes in the tally
C2_NoDoubleCount ==
    (game_started /\ current_phase = "day") =>
        \A a \in DOMAIN players : StandingVoters(a) = {} => Tally(a) = 0

\* the candidates holding the maximum of the tally
Leaders == {a \in DOMAIN vote_results :
               \A b \in DOMAIN vote_results : vote_results[b] <= vote_results[a]}
SoleLeader(a) == Leaders = {a} /\ vote_results[a] > 0

\* C3: at the day -> night transition a player dies if and only if it is the
\* single holder of the maximum tally and that maximum is positive; the
\* tally is empty afterwards
C3_DayVoteExecution ==
    [][DayResolves =>
          /\ \A a \in DOMAIN players :
                (players[a].alive /\ ~players'[a].alive) <=> SoleLeader(a)
          /\ vote_results' = NoVotes]_vars

Bonded(a, b) == b \in players[a].lovers /\ a \in players[b].lovers

\* C5: when kill is called on a living player a and a dies, every living
\* player bonded to a is dead after that same call and the returned
\* messages hold its cascade message; kill on a dead player changes no
\* player and returns no messages
C5_LoverCascade ==
    [][\A a \in DOMAIN players :
          (\E killer_id \in UserIds \cup {NoId} : KillCall(a, killer_id)) =>
             /\ ~players[a].alive => (players' = players /\ messages' = <<>>)
             /\ (players[a].alive /\ ~players'[a].alive) =>
                   \A b \in DOMAIN players :
                      (Bonded(a, b) /\ players[b].alive) =>
                         /\ ~players'[b].alive
                         /\ \E i \in DOMAIN messages' :
                               messages'[i] = <<"followed_lover", b>>]_vars

MafiaAlive == Cardinality(AliveTeam(players, MAFIA_TEAM))
CitizenAlive == Cardinality(AliveTeam(players, CITIZEN_TEAM))
MafiaCondition == MafiaAlive >= CitizenAlive /\ MafiaAlive > 0
CitizenCondition == MafiaAlive = 0 /\ CitizenAlive > 0
\* the alive Neutral players whose role predicate holds
NeutralClaimants ==
    {id \in AliveTeam(players, NEUTRAL_TEAM) : RoleCheckWin(players, id)}

\* C6: every evaluation of the win condition decides in a fixed order:
\* nobody alive ends the game with no winner; otherwise Mafia wins when the
\* living Mafia are at least as many as the living Citizens and at least
\* one, whatever the Neutral predicates say; otherwise Citizens win when no
\* Mafia and some Citizen lives; otherwise the first living Neutral player
\* in registry order whose predicate holds wins; otherwise the game goes on
C6_WinOrder ==
    \A i \in DOMAIN win_log :
        LET d == win_log[i]
        IN  CASE AliveIds(players) = {} ->
                   d = [ended |-> TRUE, team |-> NoTeam, player |-> NoId]
              [] AliveIds(players) # {} /\ MafiaCondition ->
                   d = [ended |-> TRUE, team |-> MAFIA_TEAM, player |-> NoId]
              [] AliveIds(players) # {} /\ ~MafiaCondition /\ CitizenCondition ->
                   d = [ended |-> TRUE, team |-> CITIZEN_TEAM, player |-> NoId]
              [] OTHER ->
                   IF NeutralClaimants = {}
                   THEN d = [ended |-> FALSE, team |-> NoTeam, player |-> NoId]
                   ELSE /\ d.ended /\ d.team = NEUTRAL_TEAM
                        /\ d.player \in NeutralClaimants
                        /\ \A id \in NeutralClaimants : d.player <= id

\* the win condition was evaluated with the Mafia condition true while a
\* living Neutral player's predicate held as well
C6_Witness ==
    /\ win_log # <<>>
    /\ MafiaCondition
    /\ NeutralClaimants # {}
    /\ win_log[1].team = MAFIA_TEAM

\* C7: when the win condition is evaluated with exactly the two lovers of a
\* Cupid alive and neither team condition true, the game ends with a
\* Neutral win, whether or not the Cupid is one of the two survivors
C7_CupidWins ==
    (/\ win_log # <<>>
     /\ ~MafiaCondition /\ ~CitizenCondition
     /\ \E c \in DOMAIN players :
           /\ players[c].role = "Cupid"
           /\ Cardinality(players[c].role_lovers) = 2
           /\ AliveIds(players) = players[c].role_lovers)
    => (win_log[Len(win_log)].ended /\ win_log[Len(win_log)].team = NEUTRAL_TEAM)

\* C8: end is terminal: a step that leaves the phase at end leaves no phase
\* timer pending, and a timer that fires while the phase is end does not
\* move the phase away from end
C8_EndIsTerminal ==
    [][/\ current_phase' = "end" => (phase_timers' = {} /\ InFlight' = 0)
       /\ (current_phase = "end" /\ \E kind \in TimerKinds : TimerFire(kind))
             => current_phase' = "end"]_vars

\* the notifications of the last handler that announce the end phase
EndNotifications == {i \in DOMAIN phase_log : phase_log[i][2] = "end"}

\* C9: ending the game terminates and notifies once: the mutual recursion
\* between end_game and the callback stays within its depth, a handler
\* notifies (old, "end") at most once, and never with old = "end"
C9_EndNotifiedOnce ==
    /\ ~depth_exceeded
    /\ Cardinality(EndNotifications) <= 1
    /\ \A i \in EndNotifications : phase_log[i][1] # "end"

\* a game was ended by a win inside a phase change: the callback was
\* notified of the end, and end_game ran a second time inside it
C9_Witness ==
    /\ current_phase = "end"
    /\ EndNotifications # {}
    /\ Len(end_log) = 2
    /\ win_log # <<>>

\* C10: a Timer that runs its function belongs to the phase the game is in
\* (a Timer of an earlier phase never performs a transition once another
\* transition has advanced the phase), and at most one Timer is waiting
C10_NoStaleTimer ==
    [][/\ \A kind \in TimerKinds :
             firing'[kind] < firing[kind] => current_phase = kind
       /\ Cardinality(phase_timers') <= 1]_vars

\* C11: submissions and phase transitions are serialised: a night action
\* accepted while the Timer thread runs the night -> day transition is not in
\* the night-action set when a later night starts, and a vote accepted
\* during the day -> night transition is not in the tally when the next day
\* starts
C11_Serialized ==
    [][/\ (current_phase # "night" /\ current_phase' = "night" /\ game_started')
            => night_actions' = NoActions
       /\ (current_phase # "day" /\ current_phase' = "day" /\ game_started')
            => vote_results' = NoVotes]_vars

\* C12: add_player returns False for an enrolled id or a started game,
\* remove_player returns False for an unknown id or a started game,
\* start_game returns False with fewer than MIN_PLAYERS players or a started
\* game; each failing call leaves the session (registry, roles, game_started,
\* phase) exactly as it was
C12_RejectedEnrolment ==
    /\ \A user_id \in UserIds :
          /\ (game_started \/ user_id \in DOMAIN players)
                => AddPlayerOp(Session, user_id) = Result(FALSE, Session)
          /\ (game_started \/ user_id \notin DOMAIN players)
                => RemovePlayerOp(Session, user_id) = Result(FALSE, Session)
    /\ (game_started \/ Cardinality(DOMAIN players) < MIN_PLAYERS)
          => \A shuffled \in Shuffles(DOMAIN players) :
                StartGameOp(Session, shuffled) = Result(FALSE, Session)

\* an open session with too few players for a start, an enrolled id and an
\* unknown id
C12_Witness ==
    /\ ~game_started /\ current_phase = "open"
    /\ players # <<>>
    /\ Cardinality(DOMAIN players) < MIN_PLAYERS
    /\ \E user_id \in UserIds : user_id \notin DOMAIN players

\* this step is a successful start_game
Starts == ~game_started /\ current_phase = "open" /\ current_phase' # "open"

C14_InvalidTargetRefused ==
    \A player_id, target_id \in UserIds :
        (\/ current_phase # "night"
         \/ Dead(target_id)
         \/ /\ player_id \in DOMAIN players
            /\ players[player_id].role # NoRole
            /\ target_id \notin RoleTargets(players, player_id))
        => PerformNightActionOp(Session, player_id, target_id)
              = Result(FALSE, Session)

\* C15: get_night_action_result called twice in a row, with no
\* perform_night_action in between, returns the same text both times
C15_ResultIsRepeatable ==
    \A player_id \in DOMAIN players :
        \A first_draw, second_draw \in DrawsOf(players[player_id].role) :
            LET first == GetNightActionResultOp(Session, player_id, first_draw)
                second == GetNightActionResultOp(first.session, player_id,
                                                 second_draw)
            IN  first.ret = second.ret

\* C16: get_night_action_result is a pure read: it changes neither the
\* night-action set, nor the registry, nor the sub-state of a role (the
\* Cultist's roster included)
C16_ResultIsPureRead ==
    \A player_id \in UserIds :
        \A draw \in Draws :
            LET after == GetNightActionResultOp(Session, player_id, draw).session
            IN  /\ after.night_actions = night_actions
                /\ after.players = players

\* the action kinds of which the first submission of a night stands
FirstWinsKinds == {"mafia_kill", "doctor_heal", "serial_killer_kill",
                   "detective_investigate", "witch_curse"}

C18_WeightOfTheVoter ==
    \A voter_id, target_id \in UserIds :
        (VoteAccepted(Session, voter_id, target_id)
            /\ players[voter_id].voted_for = NoId)
        => LET after == VoteOp(Session, voter_id, target_id).session
           IN  after.vote_results[target_id] - Tally(target_id)
                  = IF players[voter_id].role = "Agitator"
                    THEN 1 + EXTRA_VOTES ELSE 1

\* C19: protection does not outlive the night it was given in: while the
\* phase is night no player is protected before the resolution, and a living
\* player who alone holds the highest positive tally at the end of the day
\* is dead after the day -> night transition, healed the night before or not
C19_NoStaleProtection ==
    [][/\ (game_started /\ current_phase = "night")
            => \A id \in DOMAIN players : ~players[id].protected
       /\ DayResolves
            => \A id \in DOMAIN players :
                  (SoleLeader(id) /\ players[id].alive) => ~players'[id].alive]_vars

\* C20: day_count is 0 before the game starts and 1 right after start_game,
\* and every day -> night transition, by the day Timer or by a change_phase
\* call, adds one to it
C20_DayCounter ==
    [][/\ current_phase = "open" => day_count = 0
       /\ Starts => day_count' = 1
       /\ (current_phase = "day" /\ current_phase' = "night")
            => day_count' = day_count + 1]_vars

\* C21: at every entry into night (the first night of a game, also of a game
\* started after a stop, and every day -> night transition) the night-action
\* set is empty; a resolution consumes the recorded actions and leaves the
\* set empty
C21_FreshNight ==
    [][/\ (current_phase # "night" /\ current_phase' = "night" /\ game_started')
            => night_actions' = NoActions
       /\ NightResolves
            => (last_resolved' = night_actions /\ night_actions' = NoActions)]_vars

\* C22: when a handler has ended the game, by stop_game or by a win, the game
\* is not started, the phase is end, and the registry and the tally are empty
C22_ResetAtEnd ==
    end_log # <<>> =>
        /\ ~game_started
        /\ current_phase = "end"
        /\ players = <<>>
        /\ vote_results = NoVotes

\* C23: a start gives every enrolled player a role, and the number of
\* players with the Mafia role is the adjusted Mafia count of the settings,
\* which lies between max(1, n \div 5) and max(1, n \div 3): a started game
\* has a Mafia player
C23_MafiaCount ==
    [][Starts =>
         LET n == Cardinality(DOMAIN players')
             adjusted == GetCount(AdjustRoles(settings, n), "Mafia")
             mafia == {id \in DOMAIN players' : players'[id].role = "Mafia"}
         IN  /\ \A id \in DOMAIN players' : players'[id].role # NoRole
             /\ MinMafia(n) <= adjusted /\ adjusted <= MaxMafia(n)
             /\ Cardinality(mafia) = adjusted
             /\ mafia # {}]_vars

\* C24: for the role of every player, get_night_action_targets returns no
\* dead player; it returns the actor only for a Doctor whose self-heal
\* counter is above zero; a Mafia or MafiaWithSubRole gets no Mafia-team
\* player, a Cultist no member of its roster, and a Cupid that has used its
\* ability gets nothing
C24_NightActionTargets ==
    \A id \in DOMAIN players :
        LET targets == RoleTargets(players, id)
            role == players[id].role
        IN  /\ \A t \in targets : players[t].alive
            /\ id \in targets =>
                  (role = "Doctor" /\ players[id].self_heal_count > 0)
            /\ role \in {"Mafia", "MafiaWithSubRole"} =>
                  \A t \in targets : Team(players[t].role) # MAFIA_TEAM
            /\ role = "Cultist" => targets \cap players[id].cultists = {}
            /\ (role = "Cupid" /\ players[id].used_ability) => targets = {}

\* the living Architects
Architects == {id \in AliveIds(players) : players[id].role = "Architect"}

\* C25: an Architect wins by surviving: when the win condition is evaluated,
\* neither team condition is true and an Architect is alive, the game ends
\* with a Neutral win of the first living Neutral player whose predicate
\* holds, the Architect's predicate being true
C25_ArchitectSurvives ==
    (/\ win_log # <<>>
     /\ AliveIds(players) # {}
     /\ ~MafiaCondition /\ ~CitizenCondition
     /\ Architects # {})
    => LET d == win_log[Len(win_log)]
       IN  /\ d.ended /\ d.team = NEUTRAL_TEAM
           /\ d.player = Min(NeutralClaimants \cup Architects)

\* the Mafia and the SerialKiller have both registered a kill on t, a
\* living player nobody heals
BothKill(t) ==
    /\ Has(night_actions, "mafia_kill") /\ Has(night_actions, "serial_killer_kill")
    /\ night_actions["mafia_kill"].target_id = t
    /\ night_actions["serial_killer_kill"].target_id = t
    /\ t \in AliveIds(players)
    /\ ~(Has(night_actions, "doctor_heal") /\ night_actions["doctor_heal"].target_id = t)

\* C26: the SerialKiller's kill (priority 40) is resolved before the Mafia's
\* (priority 50): when both aim at the same living, unhealed Bomber, the
\* death is the SerialKiller's doing, so the explosion takes the
\* SerialKiller with it and spares the Mafia killer
C26_SerialKillerFirst ==
    [][\A t \in DOMAIN players :
          (/\ ProcessNightActionsUpdatedCall
           /\ BothKill(t)
           /\ players[t].role = "Bomber")
          => LET mafia_id == night_actions["mafia_kill"].killer_id
                 serial_id == night_actions["serial_killer_kill"].killer_id
             IN  /\ ~players'[t].alive
                 /\ ~players'[serial_id].alive
                 /\ players'[mafia_id].alive = players[mafia_id].alive]_vars

\* this step resolves the night and the kill of the given kind, the only
\* one aimed at the Bomber t, kills t
BomberKilled(t, kind) ==
    /\ Has(night_actions, kind)
    /\ night_actions[kind].target_id = t
    /\ night_actions[kind].killer_id # NoId
    /\ \A other \in {"mafia_kill", "serial_killer_kill"} \ {kind} :
          ~(Has(night_actions, other) /\ night_actions[other].target_id = t)
    /\ players[t].role = "Bomber"
    /\ players[t].alive /\ ~players'[t].alive

\* C27: when a Bomber is killed at night by the kill of a Mafia or of a
\* SerialKiller, the killer is dead after the same resolution, in the
\* resolution of GameManager and in that of the PhaseManager of
\* phase_manager_updated.py alike
C27_BomberTakesKiller ==
    [][\A t \in DOMAIN players :
          \A kind \in {"mafia_kill", "serial_killer_kill"} :
             (/\ NightResolves \/ ProcessNightActionsUpdatedCall
              /\ BomberKilled(t, kind))
             => ~players'[night_actions[kind].killer_id].alive]_vars

\* a BusDriver has committed the two distinct targets a and b, in either
\* order, neither being the BusDriver
Swapped(a, b) ==
    /\ Has(night_actions, "bus_driver_swap")
    /\ night_actions["bus_driver_swap"].target2_id # NoId
    /\ a # b
    /\ night_actions["bus_driver_swap"].driver_id \notin {a, b}
    /\ {a, b} = {night_actions["bus_driver_swap"].target1_id,
                 night_actions["bus_driver_swap"].target2_id}

\* C28: when the night is resolved with a BusDriver's two targets a and b
\* committed, both alive, and the Mafia's kill registered on a, who is not
\* of the Mafia team, while nobody heals, the kill lands on b: a is alive
\* and b is dead afterwards
C28_BusDriverSwap ==
    [][\A a, b \in DOMAIN players :
          (/\ NightResolves
           /\ Swapped(a, b)
           /\ {a, b} \subseteq AliveIds(players)
           /\ Has(night_actions, "mafia_kill")
           /\ night_actions["mafia_kill"].target_id = a
           /\ Team(players[a].role) # MAFIA_TEAM
           /\ ~Has(night_actions, "doctor_heal"))
          => (players'[a].alive /\ ~players'[b].alive)]_vars

\* C29: BusDriver.on_night_end rewrites nothing but the target_id fields of
\* the other actions: the actor ids (killer_id, doctor_id, architect_id,
\* ...) and every other field keep their values, also when an actor is one
\* of the two swapped players (the BusDriver itself is not), and the
\* bus_driver_swap record is unchanged
C29_SwapKeepsActors ==
    [][(/\ OnNightEndCall
        /\ Has(night_actions, "bus_driver_swap") =>
              night_actions["bus_driver_swap"].driver_id
                 \notin {night_actions["bus_driver_swap"].target1_id,
                         night_actions["bus_driver_swap"].target2_id})
       => /\ DOMAIN night_actions' = DOMAIN night_actions
          /\ \A action_key \in DOMAIN night_actions :
                /\ action_key = "bus_driver_swap" =>
                      night_actions'[action_key] = night_actions[action_key]
                /\ DOMAIN night_actions'[action_key] = DOMAIN night_actions[action_key]
                /\ \A key \in DOMAIN night_actions[action_key] \ {"target_id"} :
                      night_actions'[action_key][key] = night_actions[action_key][key]]_vars

\* C30: all Cultists share one roster: whatever conversions and day starts
\* have happened, any two players holding the Cultist role see the same
\* set of members
C30_OneRoster ==
    \A a, b \in DOMAIN players :
        (players[a].role = "Cultist" /\ players[b].role = "Cultist")
        => players[a].cultists = players[b].cultists

\* an alive Architect a has a prediction on the living player t registered
\* and updated, and no kill is registered
Predicted(a, t) ==
    /\ Has(night_actions, "architect_predict")
    /\ night_actions["architect_predict"].architect_id = a
    /\ night_actions["architect_predict"].target_id = t
    /\ a # t /\ {a, t} \subseteq AliveIds(players)
    /\ t \in DOMAIN players[a].predicted_roles
    /\ ~Has(night_actions, "mafia_kill")
    /\ ~Has(night_actions, "serial_killer_kill")

\* C31: when a night with an alive Architect's prediction on a target is
\* resolved, exactly one of the two is removed: the target when the
\* predicted role is the target's role, the Architect otherwise
C31_ArchitectPrediction ==
    [][\A a, t \in DOMAIN players :
          (/\ NightResolves \/ ProcessNightActionsUpdatedCall
           /\ Predicted(a, t))
          => IF players[a].predicted_roles[t] = players[t].role
             THEN players'[a].alive /\ ~players'[t].alive
             ELSE ~players'[a].alive /\ players'[t].alive]_vars

\* C32: the Doctor's self-heal is limited by its counter: self_heal_count
\* is never negative, and no step registers a heal of a Doctor on itself
\* when that Doctor's counter was zero
C32_SelfHealLimited ==
    [][/\ \A id \in DOMAIN players' : players'[id].self_heal_count >= 0
       /\ \A id \in DOMAIN players :
             (/\ players[id].role = "Doctor"
              /\ players[id].self_heal_count = 0
              /\ ~Has(night_actions, "doctor_heal"))
             => ~(/\ Has(night_actions', "doctor_heal")
                  /\ night_actions'["doctor_heal"].doctor_id = id
                  /\ night_actions'["doctor_heal"].target_id = id)]_vars

\* C33: when a night is resolved in which the Cupid has committed two
\* distinct living targets x and y, x and y are lover-bonded afterwards: y
\* is in x's lover set and x is in y's
C33_CupidBonds ==
    [][\A x, y \in DOMAIN players :
          (/\ NightResolves
           /\ Has(night_actions, "cupid_match")
           /\ night_actions["cupid_match"].lovers = <<x, y>>
           /\ x # y
           /\ {x, y} \subseteq AliveIds(players))
          => /\ y \in players'[x].lovers
             /\ x \in players'[y].lovers]_vars

\* the visits the last kill call paid to the lover b
Visits(b) == {i \in DOMAIN messages : messages[i] = <<"followed_lover", b>>}

\* C34: Player.kill ends on every lover graph, chains, cycles and
\* self-bonds included: a call on a dead player changes nothing, no dead
\* player comes back, and the recursion visits no player twice
C34_KillVisitsOnce ==
    [][\A a \in DOMAIN players :
          KillCall(a, NoId) =>
             /\ ~players[a].alive => players' = players
             /\ \A b \in DOMAIN players :
                   /\ ~players[b].alive => ~players'[b].alive
                   /\ Cardinality(Visits(b)') <= 1]_vars

\* C35: in the PhaseManager of phase_manager_updated.py a Timer expiry
\* and force_next_phase advance the phase only along night -> day -> vote
\* -> night and change nothing in open and end; after an advance exactly
\* one Timer waits, that of the new phase; after end_game none waits
C35_PhaseCycle ==
    [][/\ ForceNextPhaseCall \/ PhaseTimerChanges =>
             /\ current_phase \in {"open", "end"} =>
                    current_phase' = current_phase /\ phase_log' = <<>>
             /\ phase_log' # <<>> =>
                    /\ phase_log' = <<<<current_phase,
                                        AfterPhase(current_phase)>>>>
                    /\ current_phase' = AfterPhase(current_phase)
                    /\ phase_timers' = {current_phase'}
       /\ EndGameUpdatedCall => phase_timers' = {}]_vars

\* C36: a handler that ends the game invokes the on_game_end callback
\* exactly once, and when a win ended the game the callback receives the
\* winning team and the winning player of that decision
C36_EndCallbackOnce ==
    /\ Len(end_log) <= 1
    /\ EndNotifications # {} => Len(end_log) = 1
    /\ \A i \in DOMAIN win_log :
          win_log[i].ended =>
             end_log = <<<<win_log[i].team, win_log[i].player>>>>

\* C37: within one game alive is monotone and the registry keeps its
\* keys: as long as a handler does not empty the registry (the reset of
\* stop_game, which ends the game), it neither adds nor removes a key and
\* no dead player is alive after it
C37_AliveMonotone ==
    [][game_started /\ players' # <<>> =>
          /\ DOMAIN players' = DOMAIN players
          /\ \A id \in DOMAIN players :
                ~players[id].alive => ~players'[id].alive]_vars

\* a game has reached its second night with a dead player in the registry:
\* both resolutions, the phase changes and the win checks have run on it
C37_Witness ==
    /\ game_started
    /\ Notified("day", "night")
    /\ \E id \in DOMAIN players : Dead(id)
    /\ \E id \in DOMAIN players : Alive(id) /\ players[id].role = "Mafia"

\* C38: whatever picks the Cupid makes, its set of lovers never holds more
\* than two players, and once used_ability is set it holds exactly two
C38_CupidPair ==
    \A id \in DOMAIN players :
       players[id].role = "Cupid" =>
          /\ Cardinality(players[id].role_lovers) <= 2
          /\ players[id].used_ability =>
                Cardinality(players[id].role_lovers) = 2

\* the weight of the votes currently held for candidate c
HeldWeight(c) ==
    IF StandingVoters(c) = {} THEN 0
    ELSE Cardinality(StandingVoters(c)) *
            AddVote(players, c, CHOOSE v \in StandingVoters(c) : TRUE)

\* C39: casting the vote a voter already holds leaves the tally as it was,
\* and during a day the tally of every candidate is the weight of the votes
\* currently held for it, and so is the candidate's vote_count
C39_VoteIdempotent ==
    [][/\ \A voter_id, target_id \in DOMAIN players :
             (VoteCounts(voter_id, target_id)
                 /\ players[voter_id].voted_for = target_id)
             => vote_results' = vote_results
       /\ (game_started /\ current_phase = "day") =>
             \A c \in DOMAIN players :
                Tally(c) = HeldWeight(c) /\ players[c].vote_count = Tally(c)]_vars

====
